---- MODULE Spec2Model ----
(***************************************************************************)
(* A model of arxiv_paper_fetcher.py: main() reads the run parameters,     *)
(* fetches and filters the arXiv feed, and stores the surviving papers     *)
(* either in a Notion database (ArxivPaperProcessor.process_papers over    *)
(* NotionClient) or in a CSV file (CsvSaver.save).                         *)
(*                                                                         *)
(* Text is a sequence of one-character strings over a small alphabet:      *)
(*   "a" "A"  a lower / upper case letter of the class [a-zA-Z0-9-]        *)
(*   "_"      a character of [._] (allowed in a repository name only)      *)
(*   "/" "," " "  themselves                                               *)
(*   "H"      the literal text matched by  https?://github\.com/           *)
(*   "G"      the text github.com where the pattern's prefix does not      *)
(*            match (gist.github.com/, or no scheme)                       *)
(***************************************************************************)
EXTENDS Integers, Sequences, FiniteSets, TLC

\* ------------------------------------------------------------ bounds
MaxUpstream == 2      \* candidates the feed yields for one query
MaxStored == 2        \* pages already in the Notion database at the start
MaxTicks == 1         \* midnights the wall clock passes while results are iterated
PageSize == 1         \* records per page of a database query response
MaxRequests == 5      \* page requests of one get_existing_paper_urls call

\* ------------------------------------------------------------ constants
TargetOffset == 10    \* timedelta(days=10)
Day0 == 20            \* the date of the first run, as a day number

\* ------------------------------------------------------------ text
OwnerCh == {"a", "A"}
RepoCh == {"a", "A", "_"}
None == <<"None">>
NoUrl == ""

\* str.lower()
LowerCh(c) == IF c = "A" THEN "a" ELSE c
Lower(t) == [k \in 1..Len(t) |-> LowerCh(t[k])]

\* s in t
Contains(t, s) ==
    \E p \in 0..(Len(t) - Len(s)) : \A k \in 1..Len(s) : t[p + k] = s[k]

\* the length of the longest run of characters of class cls that starts at p
RECURSIVE RunLen(_, _, _)
RunLen(t, p, cls) ==
    IF p > Len(t) \/ t[p] \notin cls THEN 0 ELSE 1 + RunLen(t, p + 1, cls)

\* the length of the match of github_pattern that starts at p, 0 for none
MatchAt(t, p) ==
    IF t[p] # "H" THEN 0
    ELSE LET o == RunLen(t, p + 1, OwnerCh)
         IN  IF o = 0 \/ p + 1 + o > Len(t) \/ t[p + 1 + o] # "/" THEN 0
             ELSE LET r == RunLen(t, p + 2 + o, RepoCh)
                  IN  IF r = 0 THEN 0 ELSE 2 + o + r

\* re.findall(github_pattern, t), scanning from p
RECURSIVE FindAllFrom(_, _)
FindAllFrom(t, p) ==
    IF p > Len(t) THEN <<>>
    ELSE LET n == MatchAt(t, p)
         IN  IF n > 0 THEN <<SubSeq(t, p, p + n - 1)>> \o FindAllFrom(t, p + n)
             ELSE FindAllFrom(t, p + 1)

FindAll(t) == FindAllFrom(t, 1)

\* 'github.com' in href
MentionsGithub(t) == \E k \in 1..Len(t) : t[k] \in {"H", "G"}

\* str.strip()
RECURSIVE Strip(_)
Strip(t) ==
    IF t = <<>> THEN t
    ELSE IF Head(t) = " " THEN Strip(Tail(t))
    ELSE IF t[Len(t)] = " " THEN Strip(SubSeq(t, 1, Len(t) - 1))
    ELSE t

\* str.split(",")
RECURSIVE SplitFrom(_, _)
SplitFrom(t, acc) ==
    IF t = <<>> THEN <<acc>>
    ELSE IF Head(t) = "," THEN <<acc>> \o SplitFrom(Tail(t), <<>>)
    ELSE SplitFrom(Tail(t), Append(acc, Head(t)))

Split(t) == SplitFrom(t, <<>>)

\* [k.strip() for k in keywords_str.split(",")]
ParseKeywords(line) == LET parts == Split(line) IN [k \in 1..Len(parts) |-> Strip(parts[k])]

\* ------------------------------------------------------------ ArxivFilter
\* ArxivFilter.__init__
FilterKeywords(keywords) == [k \in 1..Len(keywords) |-> Lower(keywords[k])]

\* the abstract compared as it is
matches_keywords_AsIs(fkeywords, abstract) ==
    \E k \in 1..Len(fkeywords) : Contains(abstract, fkeywords[k])

\* ArxivFilter.matches_keywords
matches_keywords(fkeywords, abstract) ==
    \E k \in 1..Len(fkeywords) : Contains(Lower(abstract), fkeywords[k])

\* ArxivFilter.is_published_yesterday, with datetime.now().date() = today
is_published_yesterday(published, today) == published.day = today - TargetOffset

\* ------------------------------------------------------------ sample data
Min(a, b) == IF a < b THEN a ELSE b

SumRepo == <<"a", " ", "H", "a", "/", "a", "_", " ", "H", "A", "/", "a">>
SumPlain == <<"A", " ", "H", "a">>
SumOther == <<"_", " ", "_">>

Candidates ==
    { [pdf_url |-> "u1", summary |-> SumRepo,
       published |-> [day |-> Day0 - TargetOffset, tod |-> "10:00:00"]],
      [pdf_url |-> "u2", summary |-> SumOther,
       published |-> [day |-> Day0 - TargetOffset, tod |-> "00:00:00"]],
      [pdf_url |-> "u3", summary |-> SumPlain,
       published |-> [day |-> Day0 - TargetOffset - 1, tod |-> "23:59:59"]] }

\* the Paper URL of the pages created in the database before the first run,
\* oldest first (one page has none); the database holds a stretch of them
OlderUrls == <<NoUrl, "u1", "u2", "u1">>
StoredBefore ==
    { [k \in 1..(b - a + 1) |-> [url |-> OlderUrls[a + k - 1], github |-> None]] :
          a \in 1..2, b \in 0..Min(MaxStored, Len(OlderUrls)) }

KeywordLines == { <<"A">>, <<"_", ",", " ", "A">> }

AllSet == [NOTION_TOKEN |-> TRUE, NOTION_DATABASE_ID |-> TRUE, CSV_PATH |-> TRUE]

\* the runs: the line typed at the destination prompt, with the environment
\* complete or lacking one variable the chosen destination needs
Setups ==
    { [dest_line |-> "x", env |-> AllSet],
      [dest_line |-> "", env |-> AllSet],
      [dest_line |-> "", env |-> [AllSet EXCEPT !.CSV_PATH = FALSE]],
      [dest_line |-> "Notion ", env |-> AllSet],
      [dest_line |-> "Notion ", env |-> [AllSet EXCEPT !.NOTION_TOKEN = FALSE]],
      [dest_line |-> "Notion ", env |-> [AllSet EXCEPT !.NOTION_DATABASE_ID = FALSE]] }

PageNone == << [sec |-> "nav", href |-> <<"a">>], [sec |-> "nav", href |-> <<>>] >>
PageAbs ==
    << [sec |-> "nav", href |-> <<"G", "a", "/", "a">>],
       [sec |-> "abstract", href |-> <<"H", "a", "/", "a">>],
       [sec |-> "intro", href |-> <<"H", "A", "/", "A">>] >>
PageNavFirst ==
    << [sec |-> "nav", href |-> <<"H", "a", "/", "_">>],
       [sec |-> "abstract", href |-> <<"H", "a", "/", "a">>] >>

\* what requests.get and raise_for_status (an exception: neterr) and
\* BeautifulSoup and the scan (an exception: parseerr, or the links) give
Responses ==
    { [kind |-> "neterr", anchors |-> <<>>],
      [kind |-> "parseerr", anchors |-> <<>>],
      [kind |-> "ok", anchors |-> PageNone],
      [kind |-> "ok", anchors |-> PageAbs],
      [kind |-> "ok", anchors |-> PageNavFirst] }

NoResponse == [kind |-> "none", anchors |-> <<>>]

RECURSIVE SeqsUpTo(_, _)
SeqsUpTo(S, n) ==
    IF n = 0 THEN {<<>>}
    ELSE LET shorter == SeqsUpTo(S, n - 1)
         IN  shorter \cup {Append(q, x) : q \in {r \in shorter : Len(r) = n - 1}, x \in S}

\* ------------------------------------------------------------ state
VARIABLES
    upstream,        \* what the arXiv feed yields for the query, in order
    env,             \* which environment variables are set
    dest_line,       \* the line typed at the save-destination prompt
    keywords_line,   \* the line typed at the keywords prompt
    now,             \* datetime.now().date()
    ticks,           \* midnights passed so far
    db,              \* the Notion database: its pages, oldest first
    csv,             \* the CSV file
    run,             \* which run of main this is
    pc,              \* where main is
    save_to,
    keywords,
    target,          \* fetch_papers' yesterday, the date in the query
    idx,             \* results of the feed consumed so far
    filtered_papers,
    papers,
    existing_urls,
    has_more,
    start_cursor,
    i,               \* position in papers of the record being handled
    github_url,
    log,             \* what this run has done so far, in order
    prev,            \* how the previous run ended
    probe,           \* the arguments of a function called on its own
    answer,          \* what that call returned
    null_cursors     \* where the database answers has_more with a null next_cursor

vars == <<upstream, env, dest_line, keywords_line, now, ticks, db, csv, run, pc,
          save_to, keywords, target, idx, filtered_papers, papers, existing_urls,
          has_more, start_cursor, i, github_url, log, prev, probe, answer,
          null_cursors>>

world == <<upstream, env, dest_line, keywords_line, probe, answer, null_cursors>>
fetchVars == <<target, idx, filtered_papers, papers>>
snapVars == <<existing_urls, has_more, start_cursor>>

Ev(op, pos, url, gh, ok, resp) ==
    [op |-> op, pos |-> pos, url |-> url, gh |-> gh, ok |-> ok, resp |-> resp]

Header == [paper_url |-> "paper_url", github_url |-> <<"github_url">>]
NoPrev == [pc |-> "none", save_to |-> "", papers |-> <<>>, outcome |-> <<>>,
           csv |-> [exists |-> FALSE, rows |-> <<>>]]
NoProbe == <<"no call">>

Init ==
    /\ probe = NoProbe
    /\ answer = NoProbe
    /\ null_cursors = {}
    /\ upstream \in SeqsUpTo(Candidates, MaxUpstream)
    /\ \E setup \in Setups : env = setup.env /\ dest_line = setup.dest_line
    /\ keywords_line \in KeywordLines
    /\ now = Day0
    /\ ticks = 0
    /\ db \in StoredBefore
    /\ csv = [exists |-> FALSE, rows |-> <<>>]
    /\ run = "first"
    /\ pc = "start"
    /\ save_to = ""
    /\ keywords = <<>>
    /\ target = 0
    /\ idx = 0
    /\ filtered_papers = <<>>
    /\ papers = <<>>
    /\ existing_urls = {}
    /\ has_more = FALSE
    /\ start_cursor = 0
    /\ i = 0
    /\ github_url = None
    /\ log = <<>>
    /\ prev = NoPrev

\* ------------------------------------------------------------ main: prompts
\* input(...).strip().lower() on the sample lines
StripLower(line) == IF line = "Notion " THEN "notion" ELSE line

Raise(op) ==
    /\ pc' = "raised"
    /\ log' = Append(log, Ev(op, 0, NoUrl, None, FALSE, NoResponse))

\* lines 287-295
ReadSaveTo ==
    /\ pc = "start"
    /\ LET typed == StripLower(dest_line)
           chosen == IF typed = "" THEN "csv" ELSE typed
       IN  /\ save_to' = chosen
           /\ IF chosen \notin {"notion", "csv"}
              THEN Raise("bad_destination")
              ELSE pc' = "keywords" /\ log' = log
    /\ UNCHANGED <<world, now, ticks, db, csv, run, keywords, fetchVars, snapVars,
                   i, github_url, prev>>

\* lines 297-301
ReadKeywords ==
    /\ pc = "keywords"
    /\ keywords' = ParseKeywords(keywords_line)
    /\ pc' = "fetch"
    /\ UNCHANGED <<world, now, ticks, db, csv, run, save_to, fetchVars, snapVars,
                   i, github_url, log, prev>>

\* ------------------------------------------------------------ ArxivFetcher.fetch_papers
\* lines 39-59: the query is built from the date of this moment and the
\* iteration over client.results begins, which sends it to the feed
FetchStart ==
    /\ pc = "fetch"
    /\ target' = now - TargetOffset
    /\ idx' = 0
    /\ filtered_papers' = <<>>
    /\ papers' = <<>>
    /\ pc' = "iterate"
    /\ log' = Append(log, Ev("query", 0, NoUrl, None, TRUE, NoResponse))
    /\ UNCHANGED <<world, now, ticks, db, csv, run, save_to, keywords, snapVars,
                   i, github_url, prev>>

\* the wall clock passes midnight while results are iterated
Tick ==
    /\ pc = "iterate"
    /\ ticks < MaxTicks
    /\ now' = now + 1
    /\ ticks' = ticks + 1
    /\ UNCHANGED <<world, db, csv, run, pc, save_to, keywords, fetchVars, snapVars,
                   i, github_url, log, prev>>

\* lines 65-75
paper_info(result, kws) ==
    [pdf_url |-> result.pdf_url, summary |-> result.summary,
     published |-> result.published, keywords |-> kws]

\* lines 60-63: a result is kept iff both checks pass
Keep(result, kws, today) ==
    /\ matches_keywords(FilterKeywords(kws), result.summary)
    /\ is_published_yesterday(result.published, today)

\* lines 59-76: one turn of the loop over client.results(search)
FetchResult ==
    /\ pc = "iterate"
    /\ idx < Len(upstream)
    /\ LET result == upstream[idx + 1]
       IN  filtered_papers' =
               IF Keep(result, keywords, now)
               THEN Append(filtered_papers, paper_info(result, keywords))
               ELSE filtered_papers
    /\ idx' = idx + 1
    /\ UNCHANGED <<world, now, ticks, db, csv, run, pc, save_to, keywords, target,
                   papers, snapVars, i, github_url, log, prev>>

\* the feed's exception caught inside fetch_papers: what was kept is returned
FeedRaises_Swallowed ==
    /\ pc = "iterate"
    /\ papers' = filtered_papers
    /\ pc' = "dispatch"
    /\ log' = Append(log, Ev("feed_error", 0, NoUrl, None, FALSE, NoResponse))
    /\ UNCHANGED <<world, now, ticks, db, csv, run, save_to, keywords, target, idx,
                   filtered_papers, snapVars, i, github_url, prev>>

\* line 59: client.results raises (transport error after its retries)
FeedRaises ==
    /\ pc = "iterate"
    /\ Raise("feed_error")
    /\ UNCHANGED <<world, now, ticks, db, csv, run, save_to, keywords, fetchVars,
                   snapVars, i, github_url, prev>>

\* lines 78, 302-303
FetchReturn ==
    /\ pc = "iterate"
    /\ idx = Len(upstream)
    /\ papers' = filtered_papers
    /\ pc' = "dispatch"
    /\ UNCHANGED <<world, now, ticks, db, csv, run, save_to, keywords, target, idx,
                   filtered_papers, snapVars, i, github_url, log, prev>>

\* ------------------------------------------------------------ main: destination
\* lines 306-309 and 314-316
ConfigOk(dest, e) ==
    IF dest = "notion" THEN e.NOTION_TOKEN /\ e.NOTION_DATABASE_ID ELSE e.CSV_PATH

\* lines 305-318: the credentials or the path are read, then the store is used;
\* lines 257, 176-178: process_papers calls get_existing_paper_urls
Dispatch ==
    /\ pc = "dispatch"
    /\ IF ~ConfigOk(save_to, env)
       THEN /\ Raise("config_error")
            /\ UNCHANGED <<snapVars, i>>
       ELSE IF save_to = "notion"
       THEN /\ pc' = "snapshot"
            /\ existing_urls' = {}
            /\ has_more' = TRUE
            /\ start_cursor' = 0
            /\ log' = Append(log, Ev("snapshot_call", 0, NoUrl, None, TRUE, NoResponse))
            /\ UNCHANGED i
       ELSE /\ pc' = "csv_open"
            /\ UNCHANGED <<snapVars, i, log>>
    /\ UNCHANGED <<world, now, ticks, db, csv, run, save_to, keywords, fetchVars,
                   github_url, prev>>

\* ------------------------------------------------------------ NotionClient
\* the database's answer to a query: the page of results that starts at the
\* cursor (at the first record when the request carries none), has_more and
\* next_cursor; a cursor is the position of the next record, 0 is null. The
\* pages that start at a position of null_cursors come with a null
\* next_cursor even when more records follow.
QueryDb(pages, cursor) ==
    LET first == IF cursor # 0 THEN cursor ELSE 1
        last == Min(first + PageSize - 1, Len(pages))
    IN  [results |-> SubSeq(pages, first, last),
         has_more |-> last < Len(pages),
         next_cursor |-> IF last < Len(pages) /\ first \notin null_cursors
                         THEN last + 1 ELSE 0]

\* lines 190-193: the truthy Paper URL values of one response
PageUrls(results) ==
    {results[k].url : k \in {j \in 1..Len(results) : results[j].url # NoUrl}}

\* has_more ignored: the loop ends after the first response
KeepGoing_Never(data) == FALSE

\* lines 180, 195: whether the loop asks for another page
KeepGoing(data) == data.has_more

\* lines 195-197
NextCursor(cursor, data) == IF data.has_more THEN data.next_cursor ELSE cursor

\* a failed query answered by returning the URLs collected so far
QueryPage_Swallowed ==
    /\ pc = "snapshot"
    /\ has_more
    /\ \E ok \in BOOLEAN :
         LET data == QueryDb(db, start_cursor)
             more == ok /\ data.has_more
         IN  /\ existing_urls' = IF ok THEN existing_urls \cup PageUrls(data.results)
                                  ELSE existing_urls
             /\ has_more' = more
             /\ start_cursor' = IF more THEN data.next_cursor ELSE start_cursor
             /\ log' = Append(log, Ev("snapshot_req", start_cursor, NoUrl, None, ok,
                                      NoResponse))
                       \o IF more THEN <<>>
                          ELSE <<Ev("snapshot_done", 0, NoUrl, None, TRUE, NoResponse)>>
             /\ pc' = IF more THEN "snapshot" ELSE "loop"
             /\ i' = IF more THEN i ELSE 1
    /\ UNCHANGED <<world, now, ticks, db, csv, run, save_to, keywords, fetchVars,
                   github_url, prev>>

\* lines 180-197: one turn of get_existing_paper_urls' loop; line 199 and the
\* start of process_papers' loop when the database reports no more pages
QueryPage ==
    /\ pc = "snapshot"
    /\ has_more
    /\ Cardinality({k \in 1..Len(log) : log[k].op = "snapshot_req"}) < MaxRequests
    /\ \E ok \in BOOLEAN :
         IF ~ok
         THEN /\ pc' = "raised"
              /\ log' = Append(log, Ev("snapshot_req", start_cursor, NoUrl, None, FALSE,
                                       NoResponse))
              /\ UNCHANGED <<snapVars, i>>
         ELSE LET data == QueryDb(db, start_cursor)
              IN  /\ existing_urls' = existing_urls \cup PageUrls(data.results)
                  /\ has_more' = KeepGoing(data)
                  /\ start_cursor' = NextCursor(start_cursor, data)
                  /\ log' = Append(log, Ev("snapshot_req", start_cursor, NoUrl, None,
                                           TRUE, NoResponse))
                            \o IF KeepGoing(data) THEN <<>>
                               ELSE <<Ev("snapshot_done", 0, NoUrl, None, TRUE, NoResponse)>>
                  /\ pc' = IF KeepGoing(data) THEN "snapshot" ELSE "loop"
                  /\ i' = IF KeepGoing(data) THEN i ELSE 1
    /\ UNCHANGED <<world, now, ticks, db, csv, run, save_to, keywords, fetchVars,
                   github_url, prev>>

\* the Paper URL property left unset in the posted page
notion_page_NoPaperUrl(info) == [url |-> NoUrl, github |-> info.github_url]

\* lines 118-167: the page create_page posts
notion_page(info) == [url |-> info.paper_url, github |-> info.github_url]

\* ------------------------------------------------------------ ArxivPaperProcessor
\* lines 239-244: the first link whose href mentions github.com and holds a match
RECURSIVE ScanAnchors(_)
ScanAnchors(anchors) ==
    IF anchors = <<>> THEN None
    ELSE LET href == Head(anchors).href
         IN  IF MentionsGithub(href) /\ FindAll(href) # <<>>
             THEN FindAll(href)[1]
             ELSE ScanAnchors(Tail(anchors))

\* the try block left out: an error of the page request or the parse propagates
PageStage_Uncaught(resp) ==
    IF resp.kind = "ok"
    THEN [result |-> ScanAnchors(resp.anchors), resp |-> resp, warned |-> FALSE,
          raised |-> FALSE]
    ELSE [result |-> None, resp |-> resp, warned |-> FALSE, raised |-> TRUE]

\* lines 229-246: the page is requested and scanned; any exception is a warning
PageStage(resp) ==
    IF resp.kind = "ok"
    THEN [result |-> ScanAnchors(resp.anchors), resp |-> resp, warned |-> FALSE,
          raised |-> FALSE]
    ELSE [result |-> None, resp |-> resp, warned |-> TRUE, raised |-> FALSE]

\* the stages swapped: the page is asked first, the abstract scanned after
extract_github_url_PageFirst(abstract, resp) ==
    LET github_urls == FindAll(abstract)
        paged == PageStage(resp)
    IN  IF paged.result = None /\ github_urls # <<>>
        THEN [paged EXCEPT !.result = github_urls[1]]
        ELSE paged

\* lines 211-248, resp being what the network gives if it is asked
extract_github_url(abstract, resp) ==
    LET github_urls == FindAll(abstract)
    IN  IF github_urls # <<>>
        THEN [result |-> github_urls[1], resp |-> NoResponse, warned |-> FALSE,
              raised |-> FALSE]
        ELSE PageStage(resp)

\* the membership test left out: every record counts as new
IsExisting_Never(paper_url, existing) == FALSE

\* line 263
IsExisting(paper_url, existing) == paper_url \in existing

\* lines 259-265: a record already in the database is skipped
LoopSkip ==
    /\ pc = "loop"
    /\ i <= Len(papers)
    /\ IsExisting(papers[i].pdf_url, existing_urls)
    /\ log' = Append(log, Ev("skip", i, papers[i].pdf_url, None, TRUE, NoResponse))
    /\ i' = i + 1
    /\ UNCHANGED <<world, now, ticks, db, csv, run, pc, save_to, keywords, fetchVars,
                   snapVars, github_url, prev>>

\* lines 259-268: a new record's repository link is looked for; the call is
\* outside the try block, so an exception of it would leave process_papers
Extract ==
    /\ pc = "loop"
    /\ i <= Len(papers)
    /\ ~IsExisting(papers[i].pdf_url, existing_urls)
    /\ \E resp \in Responses :
         LET got == extract_github_url(papers[i].summary, resp)
         IN  /\ github_url' = got.result
             /\ log' = Append(log, Ev("extract", i, papers[i].pdf_url, got.result,
                                      ~got.warned, got.resp))
             /\ pc' = IF got.raised THEN "raised" ELSE "create"
    /\ UNCHANGED <<world, now, ticks, db, csv, run, save_to, keywords, fetchVars,
                   snapVars, i, prev>>

\* lines 271-277
notion_paper_info(paper, gh) ==
    [paper_url |-> paper.pdf_url, github_url |-> gh,
     published |-> paper.published, keywords |-> paper.keywords]

\* the try block left out: an exception of create_page leaves process_papers
AfterCreate_Uncaught(ok) == IF ok THEN "loop" ELSE "raised"

\* lines 279-283: what follows a create_page call that raised or returned
AfterCreate(ok) == "loop"

\* the exception of create_page caught and not printed
CreateReport_Silent(p, info, ok) ==
    IF ok THEN <<Ev("create", p, info.paper_url, info.github_url, ok, NoResponse)>>
    ELSE <<>>

\* lines 280-283: the line printed after create_page returned or raised
CreateReport(p, info, ok) ==
    <<Ev("create", p, info.paper_url, info.github_url, ok, NoResponse)>>

\* lines 279-283: create_page is called; its exception is caught and printed
CreatePage ==
    /\ pc = "create"
    /\ \E ok \in BOOLEAN :
         LET info == notion_paper_info(papers[i], github_url)
         IN  /\ db' = IF ok THEN Append(db, notion_page(info)) ELSE db
             /\ log' = log \o CreateReport(i, info, ok)
             /\ pc' = AfterCreate(ok)
    /\ i' = i + 1
    /\ UNCHANGED <<world, now, ticks, csv, run, save_to, keywords, fetchVars,
                   snapVars, github_url, prev>>

\* line 259: the loop is over, process_papers and main return
LoopEnd ==
    /\ pc = "loop"
    /\ i > Len(papers)
    /\ pc' = "done"
    /\ UNCHANGED <<world, now, ticks, db, csv, run, save_to, keywords, fetchVars,
                   snapVars, i, github_url, log, prev>>

\* ------------------------------------------------------------ CsvSaver
\* lines 91-97
csv_row(paper) ==
    [paper_url |-> paper.pdf_url,
     github_url |-> IF "github_url" \in DOMAIN paper THEN paper.github_url ELSE <<>>]

\* every row written to a file opened anew: the rows before it are lost
AppendRow_Reopened(file, row) == [file EXCEPT !.rows = <<Header, row>>]

\* lines 91-97: writer.writerow adds one row at the end of the open file
AppendRow(file, row) == [file EXCEPT !.rows = Append(@, row)]

\* lines 87-89: the file is opened for writing (truncated) and the header written
CsvOpen ==
    /\ pc = "csv_open"
    /\ \E ok \in BOOLEAN :
         /\ csv' = IF ok THEN [exists |-> TRUE, rows |-> <<Header>>] ELSE csv
         /\ pc' = IF ok THEN "csv_write" ELSE "raised"
         /\ i' = IF ok THEN 1 ELSE i
         /\ log' = Append(log, Ev("csv_open", 0, NoUrl, None, ok, NoResponse))
    /\ UNCHANGED <<world, now, ticks, db, run, save_to, keywords, fetchVars, snapVars,
                   github_url, prev>>

\* lines 90-97: one row is written; an I/O error leaves save and main
CsvWriteRow ==
    /\ pc = "csv_write"
    /\ i <= Len(papers)
    /\ \E ok \in BOOLEAN :
         LET row == csv_row(papers[i])
         IN  /\ csv' = IF ok THEN AppendRow(csv, row) ELSE csv
             /\ pc' = IF ok THEN "csv_write" ELSE "raised"
             /\ log' = Append(log, Ev("csv_row", i, row.paper_url, row.github_url, ok,
                                      NoResponse))
    /\ i' = i + 1
    /\ UNCHANGED <<world, now, ticks, db, run, save_to, keywords, fetchVars, snapVars,
                   github_url, prev>>

\* line 98
CsvClose ==
    /\ pc = "csv_write"
    /\ i > Len(papers)
    /\ pc' = "done"
    /\ UNCHANGED <<world, now, ticks, db, csv, run, save_to, keywords, fetchVars,
                   snapVars, i, github_url, log, prev>>

\* ------------------------------------------------------------ runs
\* how the run whose log is l classified the record at position p
Outcome(l, p) ==
    IF \E k \in 1..Len(l) : l[k].pos = p /\ l[k].op = "skip" THEN "skipped"
    ELSE IF \E k \in 1..Len(l) : l[k].pos = p /\ l[k].op \in {"create", "csv_row"} /\ l[k].ok
    THEN "persisted"
    ELSE IF \E k \in 1..Len(l) : l[k].pos = p /\ l[k].op \in {"create", "csv_row"}
    THEN "failed"
    ELSE "none"

Outcomes(l, n) == [p \in 1..n |-> Outcome(l, p)]

\* main is started again, with the same inputs, feed and stores
NextRun ==
    /\ pc \in {"done", "raised"}
    /\ run = "first"
    /\ run' = "second"
    /\ prev' = [pc |-> pc, save_to |-> save_to, papers |-> papers,
                outcome |-> Outcomes(log, Len(papers)), csv |-> csv]
    /\ pc' = "start"
    /\ save_to' = ""
    /\ keywords' = <<>>
    /\ target' = 0
    /\ idx' = 0
    /\ filtered_papers' = <<>>
    /\ papers' = <<>>
    /\ existing_urls' = {}
    /\ has_more' = FALSE
    /\ start_cursor' = 0
    /\ i' = 0
    /\ github_url' = None
    /\ log' = <<>>
    /\ UNCHANGED <<world, now, ticks, db, csv>>

Run ==
    \/ ReadSaveTo
    \/ ReadKeywords
    \/ FetchStart
    \/ Tick
    \/ FetchResult
    \/ FeedRaises
    \/ FetchReturn
    \/ Dispatch
    \/ QueryPage
    \/ LoopSkip
    \/ Extract
    \/ CreatePage
    \/ LoopEnd
    \/ CsvOpen
    \/ CsvWriteRow
    \/ CsvClose

\* one run of main
Next == Run

Spec == Init /\ [][Next]_vars

\* two runs of main with the same inputs, a valid destination and every
\* environment variable set
InitTwice ==
    /\ Init
    /\ env = AllSet
    /\ dest_line # "x"
    /\ keywords_line = <<"_", ",", " ", "A">>

NextTwice == Run \/ NextRun

SpecTwice == InitTwice /\ [][NextTwice]_vars

\* ------------------------------------------------------------ reading the log
Events(op) == {k \in 1..Len(log) : log[k].op = op}
EventsAt(op, p) == {k \in Events(op) : log[k].pos = p}
Decisions == Events("skip") \cup Events("extract") \cup Events("create")
StoreOps == {"snapshot_call", "snapshot_req", "snapshot_done", "skip", "extract",
             "create", "csv_open", "csv_row"}
InProcessPapers == save_to = "notion" /\ pc \in {"loop", "create", "done"}
\* the record at position p has been handled by process_papers' loop
Handled(p) == pc = "done" \/ (pc \in {"loop", "create"} /\ p < i)

\* ------------------------------------------------------------ claims
\* C1: per-record isolation in process_papers. Once a create_page call has
\* failed, the failure is in the log (reported), the run has not raised, it
\* goes on with the next record, and when it ends every record whose pdf_url
\* is not in the existing set has been attempted with create_page.
C1_PerRecordIsolation ==
    \A k \in Events("create") :
        ~log[k].ok =>
            /\ pc \in {"loop", "create", "done"}
            /\ i > log[k].pos
            /\ \A p \in 1..Len(papers) :
                   Handled(p) /\ papers[p].pdf_url \notin existing_urls
                       => EventsAt("create", p) # {}

\* a run that ended after a failed create_page at the first record's position
\* and a later create_page for the second record
C1_Witness ==
    /\ pc = "done"
    /\ \E k \in EventsAt("create", 1) : ~log[k].ok
    /\ EventsAt("create", 2) # {}

\* C2: the dedup decision. A record whose pdf_url is in the set that
\* get_existing_paper_urls returned is never extracted nor created; any other
\* record is created at most once, and exactly once when the loop has passed it.
C2_DedupDecision ==
    InProcessPapers =>
        \A p \in 1..Len(papers) :
            IF papers[p].pdf_url \in existing_urls
            THEN EventsAt("extract", p) = {} /\ EventsAt("create", p) = {}
            ELSE /\ Cardinality(EventsAt("create", p)) <= 1
                 /\ Handled(p) => Cardinality(EventsAt("create", p)) = 1

\* a finished run that skipped one record and created another
C2_Witness ==
    /\ pc = "done"
    /\ Events("skip") # {}
    /\ Events("create") # {}

\* how this run has classified the record at position p so far
ThisRun(p) == Outcome(log, p)
\* this is a second run that fetched what the completed first run fetched
SameBatchAgain == run = "second" /\ prev.pc = "done" /\ papers = prev.papers

\* C3 as stated: a second run over an unchanged feed and a persistent store
\* persists nothing and skips every fetched record, whatever the destination.
C3_SecondRunSkipsAll ==
    SameBatchAgain /\ pc = "done" =>
        \A p \in 1..Len(papers) : ThisRun(p) = "skipped"

\* C3, amended: on the notion destination a record that the first run
\* persisted or skipped is never written by the second run and is skipped
\* when the second run's loop has passed it (only records whose write failed
\* in the first run are attempted again); on the csv destination nothing is
\* skipped: a completed second run has rewritten every row and the file holds
\* the same rows as after the first run.
C3_SecondRunAmended ==
    SameBatchAgain =>
        /\ save_to = "notion" =>
               \A p \in 1..Len(papers) :
                   prev.outcome[p] \in {"persisted", "skipped"} =>
                       /\ ThisRun(p) \in {"none", "skipped"}
                       /\ Handled(p) => ThisRun(p) = "skipped"
        /\ save_to = "csv" /\ pc = "done" =>
               /\ csv = prev.csv
               /\ \A p \in 1..Len(papers) : ThisRun(p) = "persisted"

\* a second notion run has ended and has skipped a record the first run persisted
C3_Witness ==
    /\ SameBatchAgain
    /\ pc = "done"
    /\ save_to = "notion"
    /\ \E p \in 1..Len(papers) : prev.outcome[p] = "persisted" /\ ThisRun(p) = "skipped"

\* C4 as stated: when the selected destination's credentials or path are
\* missing, the run fails before any query is sent to the feed: a run that
\* has failed for its configuration has sent no query.
C4_ConfigFailureBeforeFetch ==
    Events("config_error") # {} => Events("query") = {}

\* C5: a feed error is fatal. Once the feed has raised, fetch_papers has
\* returned no list, the run has failed, and nothing is ever asked of or
\* written to either store.
C5_FetchFailureFatal ==
    Events("feed_error") # {} =>
        /\ pc = "raised"
        /\ papers = <<>>
        /\ \A k \in 1..Len(log) : log[k].op \notin StoreOps

\* the feed raised after a record had already passed the filter
C5_Witness == Events("feed_error") # {} /\ filtered_papers # <<>>

\* C6: a single snapshot taken up front. get_existing_paper_urls is called at
\* most once per run; every skip, extraction and create_page comes after the
\* call has returned, hence after every one of its page requests; and once a
\* page request has failed the run has raised with no record extracted,
\* skipped or persisted.
C6_SingleUpfrontSnapshot ==
    /\ Cardinality(Events("snapshot_call")) <= 1
    /\ \A d \in Decisions :
           /\ \E k \in Events("snapshot_done") : k < d
           /\ \A k \in Events("snapshot_call") \cup Events("snapshot_req") : k < d
    /\ \A k \in Events("snapshot_req") :
           ~log[k].ok => pc = "raised" /\ Decisions = {} /\ k = Len(log)

\* records were handled after a snapshot that took two page requests
C6_Witness ==
    /\ Cardinality(Events("snapshot_req")) >= 2
    /\ Events("skip") # {}
    /\ Events("create") # {}

\* a failed page request, after an earlier page had been read
C6_WitnessFailure ==
    /\ \E k \in Events("snapshot_req") : ~log[k].ok
    /\ \E k \in Events("snapshot_req") : log[k].ok

\* the database as get_existing_paper_urls saw it: without this run's pages
SnapshotDb == SubSeq(db, 1, Len(db) - Cardinality({k \in Events("create") : log[k].ok}))
StoredDocumentUrls(pages) == {pages[k].url : k \in 1..Len(pages)} \ {NoUrl}
NumPages(n) == IF n = 0 THEN 1 ELSE (n + PageSize - 1) \div PageSize
\* the cursors of the page requests, in the order they were sent
RequestCursors == [k \in 1..Cardinality(Events("snapshot_req")) |->
                      log[CHOOSE e \in Events("snapshot_req") :
                              Cardinality({f \in Events("snapshot_req") : f <= e}) = k].pos]

\* C7: pagination completeness. When get_existing_paper_urls has returned,
\* its result is exactly the set of the non-empty Paper URL values of all the
\* pages of the database, and it has asked for every page of the chain once,
\* in order: first without a cursor, then with each response's next_cursor.
C7_PaginationComplete ==
    Events("snapshot_done") # {} =>
        /\ existing_urls = StoredDocumentUrls(SnapshotDb)
        /\ Len(RequestCursors) = NumPages(Len(SnapshotDb))
        /\ \A k \in 1..Len(RequestCursors) :
               RequestCursors[k] = IF k = 1 THEN 0 ELSE (k - 1) * PageSize + 1

\* the snapshot took two requests and holds a URL found on the second page only
C7_Witness ==
    /\ Events("snapshot_done") # {}
    /\ Len(RequestCursors) >= 2
    /\ \E u \in existing_urls :
           \A k \in 1..Len(SnapshotDb) : SnapshotDb[k].url = u => k > PageSize

\* the matches of github_pattern in the links of the given sections of a page
\* whose href mentions github.com, in document order
RECURSIVE SectionMatches(_, _)
SectionMatches(anchors, secs) ==
    IF anchors = <<>> THEN <<>>
    ELSE (IF Head(anchors).sec \in secs /\ MentionsGithub(Head(anchors).href)
          THEN FindAll(Head(anchors).href) ELSE <<>>)
         \o SectionMatches(Tail(anchors), secs)

FirstOrNone(q) == IF q = <<>> THEN None ELSE q[1]
Sections == {"nav", "abstract", "intro"}
AbstractOf(e) == papers[log[e].pos].summary

\* C8 as stated: a repository URL in the abstract is returned without a
\* network call; with none in the abstract and one in the page's abstract
\* section, that one is returned (the introduction is not consulted).
C8_SectionStages ==
    \A e \in Events("extract") :
        /\ FindAll(AbstractOf(e)) # <<>> =>
               log[e].gh = FindAll(AbstractOf(e))[1] /\ log[e].resp = NoResponse
        /\ /\ FindAll(AbstractOf(e)) = <<>>
           /\ log[e].resp.kind = "ok"
           /\ SectionMatches(log[e].resp.anchors, {"abstract"}) # <<>>
           => log[e].gh = SectionMatches(log[e].resp.anchors, {"abstract"})[1]

\* C8, amended: a repository URL in the abstract is returned (the first match)
\* without a network call; the page is requested exactly when the abstract has
\* none; and a page that was received yields the first match among the links
\* of the whole page in document order, whatever section they are in, or
\* nothing when no link matches.
C8_WholePageStage ==
    \A e \in Events("extract") :
        /\ FindAll(AbstractOf(e)) # <<>> =>
               log[e].gh = FindAll(AbstractOf(e))[1] /\ log[e].resp = NoResponse
        /\ FindAll(AbstractOf(e)) = <<>> => log[e].resp \in Responses
        /\ log[e].resp.kind = "ok" =>
               log[e].gh = FirstOrNone(SectionMatches(log[e].resp.anchors, Sections))

\* one record's link came from its abstract and another's from a page whose
\* first matching link is outside the abstract section
C8_Witness ==
    /\ \E e \in Events("extract") : log[e].resp = NoResponse /\ log[e].gh # None
    /\ \E e \in Events("extract") :
           /\ log[e].resp.kind = "ok"
           /\ SectionMatches(log[e].resp.anchors, {"abstract"}) # <<>>
           /\ log[e].gh # SectionMatches(log[e].resp.anchors, {"abstract"})[1]

ErrorKinds == {"neterr", "parseerr"}

\* C9: an extraction failure never propagates. When the page request or the
\* parse raised, extract_github_url warned and returned None, the run did not
\* raise, and the same record goes to create_page with no repository URL.
C9_ExtractionFailureRecovered ==
    \A e \in Events("extract") :
        log[e].resp.kind \in ErrorKinds =>
            /\ log[e].gh = None
            /\ ~log[e].ok
            /\ IF e = Len(log)
               THEN pc = "create" /\ github_url = None /\ i = log[e].pos
               ELSE /\ log[e + 1].op = "create"
                    /\ log[e + 1].pos = log[e].pos
                    /\ log[e + 1].gh = None

\* create_page succeeded for a record whose page request had failed
C9_Witness ==
    \E e \in Events("extract") :
        /\ log[e].resp.kind \in ErrorKinds
        /\ e < Len(log)
        /\ log[e + 1].op = "create"
        /\ log[e + 1].ok

Writes == {k \in Events("create") \cup Events("csv_row") : log[k].ok}
RecordEvents == Decisions \cup Events("csv_row")

\* C10 as stated: for either destination records are handled one at a time in
\* fetch order, and every record that is persisted was given to the
\* repository-link extraction before, whose result is the value written.
C10_EnrichThenPersist ==
    /\ \A j, k \in RecordEvents : j < k => log[j].pos <= log[k].pos
    /\ \A w \in Writes :
           \E e \in EventsAt("extract", log[w].pos) : e < w /\ log[e].gh = log[w].gh

\* the paper_url column of the data rows of the file (the header is not a row)
CsvUrls(file) == {file.rows[k].paper_url : k \in 2..Len(file.rows)}
\* the URLs the previous run wrote to the given destination
PersistedBy(dest) ==
    IF prev.save_to = dest
    THEN {prev.papers[p].pdf_url : p \in {q \in 1..Len(prev.papers) :
                                              prev.outcome[q] = "persisted"}}
    ELSE {}
\* the URLs this run has written to the given kind of store so far
PersistedNow(op) == {log[k].url : k \in {w \in Events(op) : log[w].ok}}

\* C11 as stated: for either store, every URL persisted earlier, in this
\* batch or by the previous run, is in the store's set of document URLs after
\* every later persist attempt.
C11_StoreDurability ==
    /\ PersistedBy("notion") \cup PersistedNow("create") \subseteq StoredDocumentUrls(db)
    /\ PersistedBy("csv") \cup PersistedNow("csv_row") \subseteq CsvUrls(csv)

\* C11, amended: the Notion database keeps every URL persisted earlier, in
\* this batch or by the previous run, whatever later attempts do; the csv file
\* keeps every URL written earlier in the same batch, and the rows of the
\* previous run until the next run opens the file: from then on the file
\* holds the URLs this run has written and no other.
C11_DurabilityAmended ==
    /\ PersistedBy("notion") \cup PersistedNow("create") \subseteq StoredDocumentUrls(db)
    /\ PersistedNow("csv_row") \subseteq CsvUrls(csv)
    /\ IF \E k \in Events("csv_open") : log[k].ok
       THEN CsvUrls(csv) = PersistedNow("csv_row")
       ELSE PersistedBy("csv") \subseteq CsvUrls(csv)

\* the second run's create_page has failed for one record while the database
\* holds a URL that the first run persisted
C11_Witness ==
    /\ run = "second"
    /\ PersistedBy("notion") # {}
    /\ \E k \in Events("create") : ~log[k].ok

\* ------------------------------------------------------------ calls of one function
\* the state around a function that is called on its own
Standalone ==
    /\ upstream = <<>>
    /\ env = AllSet
    /\ dest_line = ""
    /\ null_cursors = {}
    /\ now = Day0
    /\ ticks = 0
    /\ db = <<>>
    /\ csv = [exists |-> FALSE, rows |-> <<>>]
    /\ run = "first"
    /\ save_to = ""
    /\ target = 0
    /\ idx = 0
    /\ filtered_papers = <<>>
    /\ papers = <<>>
    /\ existing_urls = {}
    /\ has_more = FALSE
    /\ start_cursor = 0
    /\ i = 0
    /\ github_url = None
    /\ log = <<>>
    /\ prev = NoPrev

program == <<upstream, env, dest_line, keywords_line, now, ticks, db, csv, run,
             save_to, keywords, target, idx, filtered_papers, papers,
             existing_urls, has_more, start_cursor, i, github_url, log, prev,
             null_cursors>>

\* ------------------------------------------------------------ CsvSaver, the file as text
\* "q" is the quote character, "r" and "n" the two characters of the line
\* terminator of csv.DictWriter
MaxFieldLen == 2
FieldCh == {"a", ",", "q", "n"}
Special == {",", "q", "r", "n"}

\* the texts of at most n characters of chars
RECURSIVE Texts(_, _)
Texts(chars, n) ==
    IF n = 0 THEN {<<>>}
    ELSE Texts(chars, n - 1) \cup {Append(t, c) : t \in Texts(chars, n - 1), c \in chars}

\* line 88: title, paper_url, github_url, published, keywords, each name
\* written as a text of one character
fieldnames == << <<"t">>, <<"p">>, <<"g">>, <<"d">>, <<"k">> >>

RECURSIVE Join(_, _)
Join(parts, sep) ==
    IF parts = <<>> THEN <<>>
    ELSE IF Len(parts) = 1 THEN parts[1]
    ELSE parts[1] \o sep \o Join(Tail(parts), sep)

RECURSIVE Doubled(_)
Doubled(field) ==
    IF field = <<>> THEN <<>>
    ELSE (IF Head(field) = "q" THEN <<"q", "q">> ELSE <<Head(field)>>)
         \o Doubled(Tail(field))

\* every field written as it is
csv_field_Raw(field) == field

\* lines 88-97: a field as csv.DictWriter writes it: quoted, with its quote
\* characters doubled, when it holds a delimiter, a quote or a line break
csv_field(field) ==
    IF \E k \in 1..Len(field) : field[k] \in Special
    THEN <<"q">> \o Doubled(field) \o <<"q">>
    ELSE field

\* lines 89, 91: one line of the file
writerow(fields) ==
    Join([k \in 1..Len(fields) |-> csv_field(fields[k])], <<",">>) \o <<"r", "n">>

\* lines 91-97: the fields of the row of one paper
csv_fields(paper) ==
    << paper.title,
       paper.pdf_url,
       IF "github_url" \in DOMAIN paper THEN paper.github_url ELSE <<>>,
       paper.published,
       Join(paper.keywords, <<",", " ">>) >>

RECURSIVE writerows(_)
writerows(batch) ==
    IF batch = <<>> THEN <<>>
    ELSE writerow(csv_fields(Head(batch))) \o writerows(Tail(batch))

\* lines 87-97: the text of the file after save(batch)
save(batch) == writerow(fieldnames) \o writerows(batch)

CsvPapers ==
    { [title |-> <<"a">>, pdf_url |-> u, published |-> <<"a">>, keywords |-> ks] :
        u \in Texts(FieldCh, MaxFieldLen) \ {<<>>}, ks \in { <<<<"a">>>>, << <<"a">>, <<"a">> >> } }
CsvBatches ==
    {<<>>} \cup {<<p>> : p \in CsvPapers} \cup {<<p, q>> : p \in CsvPapers, q \in CsvPapers}

InitSave ==
    /\ Standalone
    /\ keywords_line = <<>>
    /\ keywords = <<>>
    /\ pc = "save"
    /\ probe \in CsvBatches
    /\ answer = NoProbe

\* lines 86-98: CsvSaver.save(papers, keywords)
Save ==
    /\ pc = "save"
    /\ answer' = save(probe)
    /\ pc' = "returned"
    /\ UNCHANGED <<program, probe>>

SpecSave == InitSave /\ [][Save]_vars

\* what csv.reader makes of a text: the rows, each the list of its fields
RECURSIVE ReadRows(_, _, _, _, _)
ReadRows(text, st, field, row, rows) ==
    IF text = <<>>
    THEN IF st \in {"start", "eat"} THEN rows ELSE Append(rows, Append(row, field))
    ELSE LET c == Head(text)
             rest == Tail(text)
         IN  CASE st = "eat" /\ c \in {"r", "n"} -> ReadRows(rest, "eat", <<>>, <<>>, rows)
               [] st = "eat" -> ReadRows(text, "start", <<>>, <<>>, rows)
               [] st = "quoted" /\ c = "q" -> ReadRows(rest, "quote", field, row, rows)
               [] st = "quoted" -> ReadRows(rest, "quoted", Append(field, c), row, rows)
               [] st = "quote" /\ c = "q" ->
                      ReadRows(rest, "quoted", Append(field, c), row, rows)
               [] st = "start" /\ c = "q" -> ReadRows(rest, "quoted", field, row, rows)
               [] c = "," -> ReadRows(rest, "start", <<>>, Append(row, field), rows)
               [] c \in {"r", "n"} ->
                      ReadRows(rest, "eat", <<>>, <<>>, Append(rows, Append(row, field)))
               [] OTHER -> ReadRows(rest, "field", Append(field, c), row, rows)

\* the values of the named column in the rows after the header row
Column(text, name) ==
    LET rows == ReadRows(text, "eat", <<>>, <<>>, <<>>)
        col == CHOOSE k \in 1..Len(rows[1]) : rows[1][k] = name
    IN  {rows[k][col] : k \in 2..Len(rows)}

\* C12: the flat file round trip. After CsvSaver.save has written a batch,
\* reading the paper_url column of the file gives exactly the set of the
\* pdf_url values of the batch; after an empty batch the file is the header
\* row alone and the column is empty.
C12_CsvRoundTrip ==
    pc = "returned" =>
        /\ Column(answer, <<"p">>) = {probe[k].pdf_url : k \in 1..Len(probe)}
        /\ probe = <<>> => answer = writerow(fieldnames)

\* a file of two rows was written, one of them for a URL that had to be quoted
C12_Witness ==
    /\ pc = "returned"
    /\ Len(probe) = 2
    /\ probe[1].pdf_url = <<"a", ",">>
    /\ probe[2].pdf_url = <<"q">>

\* the header row alone was written for an empty batch
C12_WitnessEmpty == pc = "returned" /\ probe = <<>> /\ Column(answer, <<"p">>) = {}

\* how process_papers classifies the record at position p when the store
\* held the URLs of stored and the writes that failed are those of failed
Classified(stored, failed, p) ==
    IF papers[p].pdf_url \in stored THEN "skipped"
    ELSE IF p \in failed THEN "failed"
    ELSE "persisted"

\* C13 as stated: the csv path classifies every record as the notion path
\* does for the same batch, the same stored URLs and the same failed writes:
\* when CsvSaver.save has ended, a record whose URL the file held is skipped,
\* a record whose write failed is failed, and every other record is persisted.
C13_StoreAgnostic ==
    /\ save_to = "csv"
    /\ pc \in {"done", "raised"}
    /\ \E k \in Events("csv_open") : log[k].ok
    => \A p \in 1..Len(papers) :
           ThisRun(p) = Classified(CsvUrls(prev.csv),
                                   {log[k].pos : k \in {e \in Events("csv_row") : ~log[e].ok}},
                                   p)

\* the outcomes reported for the record at position p
Reports(p) == EventsAt("skip", p) \cup EventsAt("create", p) \cup EventsAt("csv_row", p)
Failures == {k \in Events("create") \cup Events("csv_row") : ~log[k].ok}

\* C14: the batch summary. When a run has completed, every fetched record has
\* been reported with exactly one outcome (skipped as existing, persisted or
\* failed), and the three counts add up to the number of fetched records.
C14_BatchSummary ==
    pc = "done" =>
        /\ \A p \in 1..Len(papers) : Cardinality(Reports(p)) = 1
        /\ Cardinality(Events("skip")) + Cardinality(Writes) + Cardinality(Failures)
               = Len(papers)

\* a completed run that skipped one record and failed to persist the other
C14_Witness ==
    /\ pc = "done"
    /\ Events("skip") # {}
    /\ Failures # {}

\* ------------------------------------------------------------ ArxivFilter on its own
AbstractCh == {"a", "A", "_"}
LineCh == {"a", ",", " "}
Abstracts == Texts(AbstractCh, MaxFieldLen + 1)
KeywordLists ==
    {<<>>} \cup {<<k>> : k \in Texts(AbstractCh, MaxFieldLen)}
           \cup {<<k, l>> : k \in Texts(AbstractCh, MaxFieldLen),
                            l \in Texts(AbstractCh, MaxFieldLen)}
InputLines == Texts(LineCh, MaxFieldLen + 1)

\* a filter is made either from the line typed at main's prompt or from a
\* list of keywords given to ArxivFilter directly
InitFilter ==
    /\ Standalone
    /\ answer = NoProbe
    /\ \/ /\ pc = "input"
          /\ probe \in [abstract : Abstracts, given : {"line"}]
          /\ keywords_line \in InputLines
          /\ keywords = <<>>
       \/ /\ pc = "filter"
          /\ probe \in [abstract : Abstracts, given : {"list"}]
          /\ keywords_line = <<>>
          /\ keywords \in KeywordLists

unread == <<upstream, env, dest_line, keywords_line, now, ticks, db, csv, run,
            save_to, target, idx, filtered_papers, papers, existing_urls,
            has_more, start_cursor, i, github_url, log, prev, probe, null_cursors>>

\* line 298
SplitLine ==
    /\ pc = "input"
    /\ keywords' = ParseKeywords(keywords_line)
    /\ pc' = "filter"
    /\ UNCHANGED <<unread, answer>>

\* lines 17-22: ArxivFilter(keywords).matches_keywords(abstract)
Match ==
    /\ pc = "filter"
    /\ answer' = matches_keywords(FilterKeywords(keywords), probe.abstract)
    /\ pc' = "returned"
    /\ UNCHANGED <<unread, keywords>>

NextFilter == SplitLine \/ Match

SpecFilter == InitFilter /\ [][NextFilter]_vars

\* s is a stretch of t
IsSubstring(s, t) == \E a \in 0..Len(t), b \in 0..Len(t) : SubSeq(t, a + 1, b) = s
ToLower(t) == [k \in 1..Len(t) |-> IF t[k] = "A" THEN "a" ELSE t[k]]

\* C15: the keyword match. matches_keywords(abstract) is true exactly when
\* some keyword of the list, lower-cased, is a substring of the lower-cased
\* abstract; with an empty list it is false for every abstract.
C15_KeywordMatch ==
    pc = "returned" =>
        /\ answer = \E k \in 1..Len(keywords) :
                        IsSubstring(ToLower(keywords[k]), ToLower(probe.abstract))
        /\ keywords = <<>> => answer = FALSE

\* an upper-case keyword was found inside a lower-case abstract
C15_Witness ==
    /\ pc = "returned"
    /\ keywords = << <<"A">> >>
    /\ probe.abstract = <<"_", "a", "_">>
    /\ answer = TRUE

\* the empty list matched nothing
C15_WitnessEmpty == pc = "returned" /\ keywords = <<>> /\ answer = FALSE /\ probe.abstract # <<>>

\* the candidate passes the keyword match and was published on the day the
\* query was built for
Passes(result) ==
    /\ \E k \in 1..Len(keywords) :
           IsSubstring(ToLower(keywords[k]), ToLower(result.summary))
    /\ result.published.day = target
Passing == SelectSeq(upstream, Passes)
\* fetch_papers has returned its list
Fetched == Events("query") # {} /\ Events("feed_error") = {} /\ pc # "iterate"

\* C16 as stated: the list fetch_papers returns is exactly the candidates, in
\* the feed's order, that pass the keyword match and whose published date is
\* the target date of the query; none is added and none is dropped.
C16_FetchResult ==
    Fetched => papers = [k \in 1..Len(Passing) |-> paper_info(Passing[k], keywords)]

\* C17 as stated: one target date per fetch. Every candidate that reaches the
\* date check is compared with the date the query window was built for,
\* whatever the wall clock has done since.
C17_OneTargetDate ==
    [][idx' = idx + 1 /\ matches_keywords(FilterKeywords(keywords), upstream[idx'].summary)
           => now - TargetOffset = target]_vars

\* C18 as stated: at most one write per URL in a batch. create_page is called
\* at most once for each distinct pdf_url, also when the fetched list holds
\* the same pdf_url at two positions and the first was persisted.
C18_OneWritePerUrl ==
    \A j, k \in Events("create") : log[j].url = log[k].url => j = k

\* ------------------------------------------------------------ process_papers on its own
\* process_papers has called get_existing_paper_urls, over a database that
\* may answer has_more = true with a null next_cursor
InitProcess ==
    /\ probe = NoProbe
    /\ answer = NoProbe
    /\ upstream = <<>>
    /\ env = AllSet
    /\ dest_line = "Notion "
    /\ keywords_line = <<>>
    /\ now = Day0
    /\ ticks = 0
    /\ db \in StoredBefore
    /\ null_cursors \in SUBSET (1..MaxStored)
    /\ csv = [exists |-> FALSE, rows |-> <<>>]
    /\ run = "first"
    /\ pc = "snapshot"
    /\ save_to = "notion"
    /\ keywords = << <<"A">> >>
    /\ target = Day0 - TargetOffset
    /\ idx = 0
    /\ filtered_papers = <<>>
    /\ papers \in {<<>>} \cup {<<paper_info(c, keywords)>> : c \in Candidates}
    /\ existing_urls = {}
    /\ has_more = TRUE
    /\ start_cursor = 0
    /\ i = 0
    /\ github_url = None
    /\ log = <<Ev("snapshot_call", 0, NoUrl, None, TRUE, NoResponse)>>
    /\ prev = NoPrev

NextProcess == QueryPage \/ LoopSkip \/ Extract \/ CreatePage \/ LoopEnd

SpecProcess == InitProcess /\ [][NextProcess]_vars

\* C19 as stated: pagination makes progress. Every request after the first
\* carries a cursor, the one the response before it returned, so that the
\* requests go forward through the database and never start again from the
\* first page, whatever next_cursor values the responses carry.
C19_PaginationProgress ==
    \A k \in 2..Len(RequestCursors) :
        /\ RequestCursors[k] # 0
        /\ RequestCursors[k] > RequestCursors[k - 1]

\* C20 as stated: no match-all filter from user input. Whatever line is typed
\* at the keywords prompt (a blank line, a trailing comma, two commas in a
\* row), the filter made of the list main builds from it does not match
\* every abstract.
C20_NoMatchAll ==
    pc \in {"filter", "returned"} /\ probe.given = "line" =>
        \E abstract \in Abstracts :
            ~matches_keywords(FilterKeywords(keywords), abstract)

====
